---- MODULE Spec2Model ----
(***************************************************************************)
(* LocalRide: the ride lifecycle kept in the rides table, as it is driven  *)
(* by the create-ride and accept-ride edge functions (service-role store   *)
(* client) and by the driver dashboard (user client, row-level policies).  *)
(*                                                                         *)
(* Each await of a handler on mutable store state is one step, so that     *)
(* concurrent invocations interleave between their reads and writes.       *)
(* Consecutive reads of rows no operation of the application writes        *)
(* (auth users, profiles) are folded into the neighbouring step: they      *)
(* commute with every other step.                                          *)
(*                                                                         *)
(* Columns the logic never branches on or rewrites (from_location,         *)
(* to_location, pickup_time, notes, timestamps) are not carried.           *)
(* distance_km and final_fare count hundredths (DECIMAL(_, 2));            *)
(* estimated_fare is the integer the handler computes.                     *)
(* A store call fails for the data conditions the code tests (no row, a    *)
(* constraint), not for outages.                                           *)
(* The handlers exist without and with email dispatch; the actions named   *)
(* ...Email are the last step of the latter. completion is a history       *)
(* variable: it keeps what was typed into the completion form.             *)
(***************************************************************************)
EXTENDS Integers, Sequences, FiniteSets, Bags, TLC

\* ---------------------------------------------------------------- bounds
\* rows the rides table may hold
MaxRides == 1
\* Math.random() is modelled as k / RandRes for k in 0 .. RandRes - 1
RandRes == 1000

\* ------------------------------------------------------------ vocabulary
NULL == "null"
\* SQL NULL in a numeric column
NullNum == -1
\* the JavaScript number NaN
NaN == -2

VehicleTypes == {"auto", "car", "bike"}
RideStatuses == {"pending", "accepted", "in_progress", "completed", "cancelled"}

\* auth.users: c1 signed up as customer, d1 and d2 as riders; u0 is signed in
\* but has no row in profiles.
Users == {"c1", "d1", "d2", "u0"}
\* what a request carries as credential: a user's token, no header, or a
\* token that resolves to nobody
NoHeader == "no-header"
BadToken == "bad-token"
Credentials == Users \cup {NoHeader, BadToken}

\* vehicle_type values a create-ride request body may carry
VehicleInputs == VehicleTypes \cup {"suv", NULL}

\* error messages of the handlers and of the store
ErrNoHeader == "No authorization header"
ErrUnauthorized == "Unauthorized"
ErrCustomerProfile == "Customer profile not found"
ErrDriverProfile == "Driver profile not found"
ErrDriverVehicle == "Driver vehicle profile not found"
ErrRideUnavailable == "Ride not found or already accepted"
ErrCustomerAuth == "Customer auth details not found"
ErrNoRows == "JSON object requested, multiple (or no) rows returned"
ErrEnum == "invalid input value for enum vehicle_type"
ErrNotNull == "null value in column violates not-null constraint"
Success == "success"

VARIABLES
    profiles,           \* table profiles: user_id -> row
    driver_profiles,    \* table driver_profiles: user_id -> row (UNIQUE(user_id))
    rides,              \* table rides: sequence of rows, id = position
    ride_notifications, \* table ride_notifications: bag of rows
    cr,                 \* the create-ride invocation
    acc,                \* the accept-ride invocation of each caller
    myRides,            \* driver dashboard: result of the 'driver-rides' query per user
    availableRides,     \* driver dashboard: data of the 'available-rides' query per user,
                        \* <<>> until the query has returned, then <<rows>>
    completion,         \* history: the last 'Complete Ride' request observed per user
    emails              \* the messages the mail service has accepted

vars == <<profiles, driver_profiles, rides, ride_notifications, cr, acc, myRides,
          availableRides, completion, emails>>

\* ------------------------------------------------------------ the store
\* mutant: a token that resolves to nobody is taken for d1's
getUserUnverified(cred) == IF cred \in Users THEN cred ELSE "d1"

\* supabase.auth.getUser(token): the user, or NULL
getUser(cred) == IF cred \in Users THEN cred ELSE NULL

\* mutant: the profile lookup is taken to find a row for every user
HasProfileUnchecked(u) == TRUE

\* .from('profiles').select('*').eq('user_id', u).single()
HasProfile(u) == u \in DOMAIN profiles

\* mutant: the driver_profiles lookup is taken to find a row for every user
HasDriverProfileUnchecked(u) == TRUE

\* .from('driver_profiles').select('*').eq('user_id', u).single()
HasDriverProfile(u) == u \in DOMAIN driver_profiles

RideExists(id) == id \in 1..Len(rides)

\* mutant: the column is free text
EnumAcceptsAnything(vt) == TRUE

\* the vehicle_type enum of the store
EnumAccepts(vt) == vt \in VehicleTypes

\* ------------------------------------------------------------ fare estimate
\* mutant: the bases of bike and auto swapped
baseFareSwapped(vehicle_type) ==
    IF vehicle_type = "bike" THEN 50 ELSE IF vehicle_type = "auto" THEN 30 ELSE 80

\* const baseFare = vehicle_type === 'bike' ? 30 : vehicle_type === 'auto' ? 50 : 80
baseFare(vehicle_type) ==
    IF vehicle_type = "bike" THEN 30 ELSE IF vehicle_type = "auto" THEN 50 ELSE 80

\* Math.round of the rational n / d, n >= 0: floor(n/d + 1/2)
MathRound(n, d) == (2 * n + d) \div (2 * d)

\* Math.round(baseFare + Math.random() * 100), Math.random() = k / RandRes
estimatedFare(vehicle_type, k) ==
    MathRound(baseFare(vehicle_type) * RandRes + k * 100, RandRes)

\* values of Math.random() (as k) drawn in the lifecycle specification
RandomSamples == {RandRes - 1}
\* every value of Math.random() (as k)
RandomRange == 0 .. (RandRes - 1)


\* ------------------------------------------------------------ initial state
\* A deployed store: the sign-up trigger has written the profiles, nobody has
\* set up a driver profile, no ride was requested, no request is in flight.
IdleCreate == [pc |-> "idle", user |-> NULL, vehicle_type |-> NULL,
               ride |-> <<>>, response |-> NULL]
IdleAccept == [pc |-> "idle", user |-> NULL, ride_id |-> 0,
               ride |-> <<>>, response |-> NULL]

\* no 'Complete Ride' request was made yet
NoCompletion == [distance |-> <<>>, fare |-> <<>>, sent |-> FALSE]

Init ==
    /\ profiles = ("c1" :> [user_type |-> "customer"])
                  @@ ("d1" :> [user_type |-> "rider"])
                  @@ ("d2" :> [user_type |-> "rider"])
    /\ driver_profiles = <<>>
    /\ rides = <<>>
    /\ ride_notifications = EmptyBag
    /\ cr = IdleCreate
    /\ acc = [c \in Credentials |-> IdleAccept]
    /\ myRides = [u \in Users |-> {}]
    /\ availableRides = [u \in Users |-> <<>>]
    /\ completion = [u \in Users |-> NoCompletion]
    /\ emails = {}

\* ------------------------------------------------------------ create-ride
\* mutant: the caller is written as the ride's driver too
NewRideDriverIsCaller(user, vehicle_type, fare) ==
    [id |-> Len(rides) + 1,
     customer_id |-> user,
     driver_id |-> user,
     vehicle_type |-> vehicle_type,
     status |-> "pending",
     estimated_fare |-> fare,
     final_fare |-> NullNum,
     distance_km |-> NullNum]

\* the row .insert({customer_id, ..., vehicle_type, estimated_fare}) writes:
\* the columns given, the table's defaults for the others
NewRide(user, vehicle_type, fare) ==
    [id |-> Len(rides) + 1,
     customer_id |-> user,
     driver_id |-> NULL,
     vehicle_type |-> vehicle_type,
     status |-> "pending",
     estimated_fare |-> fare,
     final_fare |-> NullNum,
     distance_km |-> NullNum]

\* the store's verdict on the insert, which rests on the vehicle_type column
\* alone (NOT NULL, the enum): NULL, or the error it returns
InsertRideError(vehicle_type) ==
    IF vehicle_type = NULL THEN ErrNotNull
    ELSE IF ~EnumAccepts(vehicle_type) THEN ErrEnum
    ELSE NULL

Notification(ride_id, user_id, message) ==
    [ride_id |-> ride_id, user_id |-> user_id, message |-> message]

\* catch (error): the response { error: error.message }, status 400
CreateFail(user, vehicle_type, msg) ==
    /\ cr' = [pc |-> "done", user |-> user, vehicle_type |-> vehicle_type,
              ride |-> <<>>, response |-> msg]
    /\ UNCHANGED <<rides, ride_notifications>>

\* From the request to the insert into rides: authorization header, getUser,
\* request body, profile lookup, fare estimate, insert. C: the credentials
\* requests come with, V: the vehicle types they ask for, R: the values
\* Math.random() may return.
CreateRideInsert(C, V, R) ==
    \E cred \in C, vt \in V :
        /\ cr.pc \in {"idle", "done"}
        /\ LET user == getUser(cred)
           IN  IF cred = NoHeader THEN CreateFail(NULL, NULL, ErrNoHeader)
               ELSE IF user = NULL THEN CreateFail(NULL, NULL, ErrUnauthorized)
               ELSE IF ~HasProfile(user) THEN CreateFail(user, vt, ErrCustomerProfile)
               ELSE IF InsertRideError(vt) # NULL
                    THEN CreateFail(user, vt, InsertRideError(vt))
               ELSE /\ Len(rides) < MaxRides
                    /\ \E k \in R :
                        LET row == NewRide(user, vt, estimatedFare(vt, k))
                        IN  /\ rides' = Append(rides, row)
                            /\ cr' = [pc |-> "notify", user |-> user,
                                      vehicle_type |-> vt, ride |-> <<row>>,
                                      response |-> NULL]
                    /\ UNCHANGED ride_notifications
        /\ UNCHANGED <<profiles, driver_profiles, acc, myRides,
                       emails, completion, availableRides>>

\* mutant: the response is given without the notification insert
CreateRideNotifySkipped ==
    /\ cr.pc = "notify"
    /\ cr' = [cr EXCEPT !.pc = "done", !.response = Success]
    /\ UNCHANGED <<profiles, driver_profiles, rides, ride_notifications, acc, myRides,
                   emails, completion, availableRides>>

\* The notification insert and the response { success: true, ride }.
CreateRideNotify ==
    /\ cr.pc = "notify"
    /\ ride_notifications' = ride_notifications
           (+) SetToBag({Notification(cr.ride[1].id, cr.user, "submitted")})
    /\ cr' = [cr EXCEPT !.pc = "done", !.response = Success]
    /\ UNCHANGED <<profiles, driver_profiles, rides, acc, myRides,
                   emails, completion, availableRides>>

\* a message handed to resend.emails.send
Email(to, subject, ride_id) == [to |-> to, subject |-> subject, ride_id |-> ride_id]

\* mutant: the dispatch is not wrapped in try/catch
CreateRideNotifyEmailUncaught(E) ==
    \E sent \in E :
        /\ cr.pc = "notify"
        /\ IF sent
           THEN /\ emails' = emails \cup {Email(cr.user, "Ride Request Confirmed",
                                                 cr.ride[1].id)}
                /\ ride_notifications' = ride_notifications
                       (+) SetToBag({Notification(cr.ride[1].id, cr.user, "submitted")})
                /\ cr' = [cr EXCEPT !.pc = "done", !.response = Success]
           ELSE /\ cr' = [cr EXCEPT !.pc = "done", !.response = "email failed"]
                /\ UNCHANGED <<emails, ride_notifications>>
        /\ UNCHANGED <<profiles, driver_profiles, rides, acc, myRides,
                       completion, availableRides>>

\* create-ride with email dispatch: the confirmation mail to the caller inside
\* try/catch, then the notification insert and the response. E: the outcomes
\* of resend.emails.send (TRUE: the message is accepted, FALSE: it throws).
CreateRideNotifyEmail(E) ==
    \E sent \in E :
        /\ cr.pc = "notify"
        /\ emails' = IF sent
                     THEN emails \cup {Email(cr.user, "Ride Request Confirmed",
                                             cr.ride[1].id)}
                     ELSE emails
        /\ ride_notifications' = ride_notifications
               (+) SetToBag({Notification(cr.ride[1].id, cr.user, "submitted")})
        /\ cr' = [cr EXCEPT !.pc = "done", !.response = Success]
        /\ UNCHANGED <<profiles, driver_profiles, rides, acc, myRides,
                       completion, availableRides>>

\* ------------------------------------------------------------ accept-ride
\* mutant: the read is not filtered by status
ReadRideAnyStatus(ride_id) ==
    IF RideExists(ride_id) THEN <<rides[ride_id]>> ELSE <<>>

\* .from('rides').select().eq('id', ride_id).eq('status', 'pending').single()
ReadPendingRide(ride_id) ==
    IF RideExists(ride_id) /\ rides[ride_id].status = "pending"
    THEN <<rides[ride_id]>> ELSE <<>>

\* mutant: the update leaves the status out
AcceptedRideStatusOmitted(row, user) == [row EXCEPT !.driver_id = user]

\* .update({ driver_id: user.id, status: 'accepted' }) applied to a row
AcceptedRide(row, user) == [row EXCEPT !.driver_id = user, !.status = "accepted"]

\* mutant: the update is filtered by status = pending too
UpdateRideByIdIfPending(ride_id, user) ==
    [i \in 1..Len(rides) |->
        IF rides[i].id = ride_id /\ rides[i].status = "pending"
        THEN [rides[i] EXCEPT !.driver_id = user, !.status = "accepted"]
        ELSE rides[i]]

\* .from('rides').update(...).eq('id', ride_id): every row with that id
UpdateRideById(ride_id, user) ==
    [i \in 1..Len(rides) |->
        IF rides[i].id = ride_id THEN AcceptedRide(rides[i], user) ELSE rides[i]]

\* supabase.auth.admin.getUserById(id)
getUserById(id) == IF id \in Users THEN id ELSE NULL

AcceptFail(i, user, ride_id, msg) ==
    /\ acc' = [acc EXCEPT ![i] = [pc |-> "done", user |-> user, ride_id |-> ride_id,
                                  ride |-> acc[i].ride, response |-> msg]]
    /\ UNCHANGED <<rides, ride_notifications>>

\* From the request to the driver_profiles lookup. A caller has one request
\* in flight at a time (the Accept buttons are disabled while one is pending).
AcceptRideStart(i) ==
    \E ride_id \in 1..MaxRides :
        /\ acc[i].pc \in {"idle", "done"}
        /\ LET cred == i
               user == getUser(cred)
           IN  IF cred = NoHeader THEN
                   /\ acc' = [acc EXCEPT ![i] = [IdleAccept EXCEPT !.pc = "done",
                                                    !.response = ErrNoHeader]]
               ELSE IF user = NULL THEN
                   /\ acc' = [acc EXCEPT ![i] = [IdleAccept EXCEPT !.pc = "done",
                                                    !.response = ErrUnauthorized]]
               ELSE IF ~HasProfile(user) THEN
                   /\ acc' = [acc EXCEPT ![i] = [IdleAccept EXCEPT !.pc = "done",
                                 !.user = user, !.ride_id = ride_id,
                                 !.response = ErrDriverProfile]]
               ELSE IF ~HasDriverProfile(user) THEN
                   /\ acc' = [acc EXCEPT ![i] = [IdleAccept EXCEPT !.pc = "done",
                                 !.user = user, !.ride_id = ride_id,
                                 !.response = ErrDriverVehicle]]
               ELSE
                   /\ acc' = [acc EXCEPT ![i] = [IdleAccept EXCEPT !.pc = "read",
                                 !.user = user, !.ride_id = ride_id]]
        /\ UNCHANGED <<profiles, driver_profiles, rides, ride_notifications, cr, myRides,
                       emails, completion, availableRides>>

\* mutant: the ride is read only if it asks for the vehicle type of the caller
AcceptRideReadMatchingVehicle(i) ==
    /\ acc[i].pc = "read"
    /\ LET ride == ReadPendingRide(acc[i].ride_id)
       IN  IF \/ ride = <<>>
              \/ ride[1].vehicle_type # driver_profiles[acc[i].user].vehicle_type
           THEN AcceptFail(i, acc[i].user, acc[i].ride_id, ErrRideUnavailable)
           ELSE /\ acc' = [acc EXCEPT ![i].pc = "update", ![i].ride = ride]
                /\ UNCHANGED <<rides, ride_notifications>>
    /\ UNCHANGED <<profiles, driver_profiles, cr, myRides,
                   emails, completion, availableRides>>

\* The read of the ride, filtered by status = pending.
AcceptRideRead(i) ==
    /\ acc[i].pc = "read"
    /\ LET ride == ReadPendingRide(acc[i].ride_id)
       IN  IF ride = <<>>
           THEN AcceptFail(i, acc[i].user, acc[i].ride_id, ErrRideUnavailable)
           ELSE /\ acc' = [acc EXCEPT ![i].pc = "update", ![i].ride = ride]
                /\ UNCHANGED <<rides, ride_notifications>>
    /\ UNCHANGED <<profiles, driver_profiles, cr, myRides,
                   emails, completion, availableRides>>

\* The update of the ride, filtered by id alone.
AcceptRideUpdate(i) ==
    /\ acc[i].pc = "update"
    /\ rides' = UpdateRideById(acc[i].ride_id, acc[i].user)
    /\ acc' = [acc EXCEPT ![i].pc = "notify"]
    /\ UNCHANGED <<profiles, driver_profiles, ride_notifications, cr, myRides,
                   emails, completion, availableRides>>

\* mutant: the driver's notification is left out
AcceptedNotificationsCustomerOnly(ride_id, customer_id, user) ==
    SetToBag({Notification(ride_id, customer_id, "accepted-customer")})

\* Promise.all of the two inserts into ride_notifications: the rows added
AcceptedNotifications(ride_id, customer_id, user) ==
    SetToBag({Notification(ride_id, customer_id, "accepted-customer")})
        (+) SetToBag({Notification(ride_id, user, "accepted-driver")})

\* The customer lookups, the two notification inserts and the response
\* { success: true }.
AcceptRideNotify(i) ==
    /\ acc[i].pc = "notify"
    /\ LET ride == acc[i].ride[1]
       IN  IF ~HasProfile(ride.customer_id)
           THEN AcceptFail(i, acc[i].user, acc[i].ride_id, ErrNoRows)
           ELSE IF getUserById(ride.customer_id) = NULL
           THEN AcceptFail(i, acc[i].user, acc[i].ride_id, ErrCustomerAuth)
           ELSE /\ ride_notifications' = ride_notifications
                     (+) AcceptedNotifications(acc[i].ride_id, ride.customer_id,
                                               acc[i].user)
                /\ acc' = [acc EXCEPT ![i].pc = "done", ![i].response = Success]
                /\ UNCHANGED rides
    /\ UNCHANGED <<profiles, driver_profiles, cr, myRides,
                   emails, completion, availableRides>>

\* the mails of an acceptance in the order they are sent: to the customer,
\* then to the driver
AcceptedEmails(ride_id, customer_id, user) ==
    << Email(customer_id, "Ride Accepted", ride_id),
       Email(user, "Ride Assignment Confirmed", ride_id) >>

\* accept-ride with email dispatch: the customer lookups, the two mails inside
\* one try/catch (the first send that throws skips the rest), then the two
\* notification inserts and the response. E: how many of the mails are
\* accepted before a send throws (2: none throws).
AcceptRideNotifyEmail(i, E) ==
    \E delivered \in E :
        /\ acc[i].pc = "notify"
        /\ LET ride == acc[i].ride[1]
               mails == AcceptedEmails(acc[i].ride_id, ride.customer_id, acc[i].user)
           IN  IF ~HasProfile(ride.customer_id)
               THEN /\ AcceptFail(i, acc[i].user, acc[i].ride_id, ErrNoRows)
                    /\ UNCHANGED emails
               ELSE IF getUserById(ride.customer_id) = NULL
               THEN /\ AcceptFail(i, acc[i].user, acc[i].ride_id, ErrCustomerAuth)
                    /\ UNCHANGED emails
               ELSE /\ emails' = emails \cup {mails[k] : k \in 1..delivered}
                    /\ ride_notifications' = ride_notifications
                         (+) AcceptedNotifications(acc[i].ride_id, ride.customer_id,
                                                   acc[i].user)
                    /\ acc' = [acc EXCEPT ![i].pc = "done", ![i].response = Success]
                    /\ UNCHANGED rides
        /\ UNCHANGED <<profiles, driver_profiles, cr, myRides, completion, availableRides>>

\* what a request to the store or to the auth service resolves to: data, or
\* an error of the request itself (data: null, error set)
LookupOutcomes == {"data", "error"}
ErrStoreRequest == "store request failed"

\* accept-ride past the update, the two customer lookups answered as drawn
\* from O: `if (customerError) throw customerError`, `if (customerAuthError ||
\* !customerAuth.user) throw new Error('Customer auth details not found')`;
\* the catch answers { error: error.message }. The update is not undone.
AcceptRideNotifyUnreliable(i, O) ==
    \E customer \in O, customerAuth \in O :
        /\ acc[i].pc = "notify"
        /\ LET ride == acc[i].ride[1]
           IN  IF customer = "error"
               THEN AcceptFail(i, acc[i].user, acc[i].ride_id, ErrStoreRequest)
               ELSE IF ~HasProfile(ride.customer_id)
               THEN AcceptFail(i, acc[i].user, acc[i].ride_id, ErrNoRows)
               ELSE IF customerAuth = "error" \/ getUserById(ride.customer_id) = NULL
               THEN AcceptFail(i, acc[i].user, acc[i].ride_id, ErrCustomerAuth)
               ELSE /\ ride_notifications' = ride_notifications
                         (+) AcceptedNotifications(acc[i].ride_id, ride.customer_id,
                                                   acc[i].user)
                    /\ acc' = [acc EXCEPT ![i].pc = "done", ![i].response = Success]
                    /\ UNCHANGED rides
        /\ UNCHANGED <<profiles, driver_profiles, cr, myRides,
                       emails, completion, availableRides>>


\* ------------------------------------------------------------ row-level policies
\* "Users can view their own rides": USING (auth.uid() = customer_id OR
\* auth.uid() = driver_id)
RidesSelectPolicy(uid, row) == uid = row.customer_id \/ uid = row.driver_id

\* mutant: the update policy lets every user through
RidesUpdatePolicyOpen(uid, row) == TRUE

\* "Drivers can update rides they're assigned to": USING (auth.uid() =
\* driver_id OR auth.uid() = customer_id)
RidesUpdatePolicy(uid, row) == uid = row.driver_id \/ uid = row.customer_id

\* ------------------------------------------------------------ driver dashboard
\* Index: the driver dashboard is rendered for user_type = 'rider'
IsRider(u) == HasProfile(u) /\ profiles[u].user_type = "rider"

\* saveProfile with no driver profile loaded: insert the row, is_available: true
\* (the form is rendered only until a driver profile has been loaded). V: the
\* vehicle types the form is submitted with.
SaveProfile(u, V) ==
    \E vt \in V :
        /\ IsRider(u)
        /\ ~HasDriverProfile(u)
        /\ driver_profiles' = driver_profiles
               @@ (u :> [vehicle_type |-> vt, is_available |-> TRUE])
        /\ UNCHANGED <<profiles, rides, ride_notifications, cr, acc, myRides,
                       emails, completion, availableRides>>

\* toggleAvailability: .update({ is_available }).eq('user_id', user.id)
ToggleAvailability(u) ==
    \E checked \in BOOLEAN :
        /\ IsRider(u)
        /\ HasDriverProfile(u)
        /\ driver_profiles' = [driver_profiles EXCEPT ![u].is_available = checked]
        /\ UNCHANGED <<profiles, rides, ride_notifications, cr, acc, myRides,
                       emails, completion, availableRides>>

\* the 'driver-rides' query over a rides table, as user u: the cards shown
DriverRides(table, u) ==
    { [id |-> table[i].id, status |-> table[i].status] :
        i \in { j \in 1..Len(table) :
                    /\ RidesSelectPolicy(u, table[j])
                    /\ table[j].driver_id = u
                    /\ table[j].status # "completed"
                    /\ table[j].status # "cancelled" } }

\* the query runs (mount, window focus, invalidation); enabled: !!driverProfile
FetchMyRides(u) ==
    /\ IsRider(u)
    /\ HasDriverProfile(u)
    /\ myRides' = [myRides EXCEPT ![u] = DriverRides(rides, u)]
    /\ UNCHANGED <<profiles, driver_profiles, rides, ride_notifications, cr, acc,
                   emails, completion, availableRides>>

\* mutant: the query is not filtered by vehicle_type
AvailableRidesAnyVehicle(table, u, vehicle_type) ==
    { [id |-> table[i].id, status |-> table[i].status,
       vehicle_type |-> table[i].vehicle_type] :
        i \in { j \in 1..Len(table) :
                    /\ RidesSelectPolicy(u, table[j])
                    /\ table[j].status = "pending" } }

\* the 'available-rides' query over a rides table, as user u whose loaded
\* driver profile has the given vehicle_type: the rows returned
AvailableRides(table, u, vehicle_type) ==
    { [id |-> table[i].id, status |-> table[i].status,
       vehicle_type |-> table[i].vehicle_type] :
        i \in { j \in 1..Len(table) :
                    /\ RidesSelectPolicy(u, table[j])
                    /\ table[j].status = "pending"
                    /\ table[j].vehicle_type = vehicle_type } }

\* the query runs (mount, window focus, invalidation); enabled: !!driverProfile,
\* until it has returned its data is undefined. The driver profile loaded is
\* the store's row: no operation rewrites its vehicle_type.
FetchAvailableRides(u) ==
    /\ IsRider(u)
    /\ HasDriverProfile(u)
    /\ availableRides' = [availableRides EXCEPT ![u] =
           <<AvailableRides(rides, u, driver_profiles[u].vehicle_type)>>]
    /\ UNCHANGED <<profiles, driver_profiles, rides, ride_notifications, cr, acc,
                   myRides, emails, completion>>

\* text of a number input, as its characters
DigitValue == ("0" :> 0) @@ ("1" :> 1) @@ ("2" :> 2) @@ ("3" :> 3) @@ ("4" :> 4)
              @@ ("5" :> 5) @@ ("6" :> 6) @@ ("7" :> 7) @@ ("8" :> 8) @@ ("9" :> 9)
IsDigit(c) == c \in DOMAIN DigitValue

\* the longest prefix of s made of digits
RECURSIVE DigitPrefix(_)
DigitPrefix(s) ==
    IF s # <<>> /\ IsDigit(Head(s)) THEN <<Head(s)>> \o DigitPrefix(Tail(s)) ELSE <<>>

RECURSIVE DigitsToNat(_, _)
DigitsToNat(s, n) ==
    IF s = <<>> THEN n ELSE DigitsToNat(Tail(s), 10 * n + DigitValue[Head(s)])

\* parseFloat(text) in hundredths (the scale of the DECIMAL(_, 2) columns),
\* NaN when the text does not start with a number
parseFloat(s) ==
    LET int == DigitPrefix(s)
        rest == SubSeq(s, Len(int) + 1, Len(s))
        frac == IF rest # <<>> /\ Head(rest) = "." THEN DigitPrefix(Tail(rest)) ELSE <<>>
        two == SubSeq(frac \o <<"0", "0">>, 1, 2)
    IN  IF int = <<>> /\ frac = <<>> THEN NaN
        ELSE 100 * DigitsToNat(int, 0) + DigitsToNat(two, 0)

\* JavaScript truthiness of a number
Truthy(n) == n # 0 /\ n # NaN /\ n # NullNum

\* mutant: the update data releases the driver
UpdatedRideDriverReleased(row, status, distance, fare) ==
    [row EXCEPT !.status = status,
                !.driver_id = NULL,
                !.distance_km = IF distance # 0 /\ distance # NaN /\ distance # NullNum
                                THEN distance ELSE @,
                !.final_fare = IF fare # 0 /\ fare # NaN /\ fare # NullNum
                               THEN fare ELSE @]

\* updateRideStatus.mutationFn: updateData = { status }, plus distance_km and
\* final_fare when the values are truthy; distance, fare = NullNum when not given
UpdatedRide(row, status, distance, fare) ==
    [row EXCEPT !.status = status,
                !.distance_km = IF Truthy(distance) THEN distance ELSE @,
                !.final_fare = IF Truthy(fare) THEN fare ELSE @]

\* .from('rides').update(updateData).eq('id', rideId) as user u: the rows with
\* that id the update policy lets u touch
UpdateRideStatus(u, rideId, status, distance, fare) ==
    [i \in 1..Len(rides) |->
        IF rides[i].id = rideId /\ RidesUpdatePolicy(u, rides[i])
        THEN UpdatedRide(rides[i], status, distance, fare)
        ELSE rides[i]]

\* texts the distance and fare inputs of a card may hold
DistanceInputs == { <<>>, <<"0">>, <<"1", "2", ".", "5">>, <<"a", "b", "c">> }
FareInputs == { <<>>, <<"0">>, <<"1", "5", "0">>, <<"1", "5", "0", "/", "-">> }

\* mutant: 'Start Ride' sends the estimated fare as the fare of the ride
StartRideCharging(u) ==
    \E card \in myRides[u] :
        /\ card.status = "accepted"
        /\ rides' = UpdateRideStatus(u, card.id, "in_progress", NullNum,
                                     rides[card.id].estimated_fare)
        /\ myRides' = [myRides EXCEPT ![u] = DriverRides(rides', u)]
        /\ UNCHANGED <<profiles, driver_profiles, ride_notifications, cr, acc,
                       emails, completion, availableRides>>

\* 'Start Ride' on a card shown as accepted: handleStatusUpdate('in_progress'),
\* then onSuccess refetches 'driver-rides'
StartRide(u) ==
    \E card \in myRides[u] :
        /\ card.status = "accepted"
        /\ rides' = UpdateRideStatus(u, card.id, "in_progress", NullNum, NullNum)
        /\ myRides' = [myRides EXCEPT ![u] = DriverRides(rides', u)]
        /\ UNCHANGED <<profiles, driver_profiles, ride_notifications, cr, acc,
                       emails, completion, availableRides>>

\* <Input type="number">: the text is a valid floating-point number (sign and
\* exponent are not among the texts drawn)
IsNumberText(s) ==
    LET int == DigitPrefix(s)
        rest == SubSeq(s, Len(int) + 1, Len(s))
    IN  \/ int # <<>> /\ rest = <<>>
        \/ /\ rest # <<>>
           /\ Head(rest) = "."
           /\ Len(rest) > 1
           /\ DigitPrefix(Tail(rest)) = Tail(rest)

\* mutant: a text input, whose value is whatever was typed
TextInputValue(s) == s

\* e.target.value of a number input: the text typed when it is a number, the
\* empty string when it is not
NumberInputValue(s) == IF IsNumberText(s) THEN s ELSE <<>>

\* mutant: the distance is not asked for
CompletionAllowedFareOnly(distance, fare) == fare # <<>>

\* !(!distance || !fare), the condition of the button (disabled) and of
\* handleStatusUpdate (toast.error, return): both inputs hold a value
CompletionAllowed(distance, fare) == distance # <<>> /\ fare # <<>>

\* whether handleStatusUpdate('completed') calls updateRideStatus, given the
\* texts typed into the two inputs
CompletionSent(typedDistance, typedFare) ==
    CompletionAllowed(NumberInputValue(typedDistance), NumberInputValue(typedFare))

\* mutant: the fare entered replaces the estimate
HandleCompleteOverwritingEstimate(u, card, typedDistance, typedFare) ==
    IF ~CompletionSent(typedDistance, typedFare)
    THEN UNCHANGED <<rides, myRides>>
    ELSE /\ rides' = [i \in 1..Len(rides) |->
                         IF rides[i].id = card.id /\ RidesUpdatePolicy(u, rides[i])
                         THEN [rides[i] EXCEPT
                                  !.status = "completed",
                                  !.estimated_fare =
                                      parseFloat(NumberInputValue(typedFare))]
                         ELSE rides[i]]
         /\ myRides' = [myRides EXCEPT ![u] = DriverRides(rides', u)]

\* handleStatusUpdate('completed') on a card, then onSuccess refetches
\* 'driver-rides'
HandleComplete(u, card, typedDistance, typedFare) ==
    IF ~CompletionSent(typedDistance, typedFare)
    THEN UNCHANGED <<rides, myRides>>
    ELSE /\ rides' = UpdateRideStatus(u, card.id, "completed",
                                      parseFloat(NumberInputValue(typedDistance)),
                                      parseFloat(NumberInputValue(typedFare)))
         /\ myRides' = [myRides EXCEPT ![u] = DriverRides(rides', u)]

\* 'Complete Ride' on a card shown as in_progress. D, F: the texts typed into
\* the distance and fare inputs.
CompleteRide(u, D, F) ==
    \E card \in myRides[u], typedDistance \in D, typedFare \in F :
        /\ card.status = "in_progress"
        /\ HandleComplete(u, card, typedDistance, typedFare)
        /\ UNCHANGED <<profiles, driver_profiles, ride_notifications, cr, acc,
                       emails, completion, availableRides>>

\* The same, observed: completion (a history variable) keeps the texts of the
\* request and whether it was sent to the store.
CompleteRideObserved(u, D, F) ==
    \E card \in myRides[u], typedDistance \in D, typedFare \in F :
        /\ card.status = "in_progress"
        /\ HandleComplete(u, card, typedDistance, typedFare)
        /\ completion' = [completion EXCEPT ![u] =
                             [distance |-> typedDistance, fare |-> typedFare,
                              sent |-> CompletionSent(typedDistance, typedFare)]]
        /\ UNCHANGED <<profiles, driver_profiles, ride_notifications, cr, acc,
                       emails, availableRides>>

\* ------------------------------------------------------------ specifications
\* the customers and the riders that have a profile
Customers == {"c1"}
Drivers == {"d1", "d2"}
\* the vehicle type requested and registered in the lifecycle specification,
\* whose steps do not read it
LifecycleVehicles == {"car"}
\* the texts typed into the completion form in the lifecycle specification
TypedDistances == { <<>>, <<"1", "2", ".", "5">> }
TypedFares == { <<>>, <<"1", "5", "0">> }

\* The ride lifecycle: the customer's requests are well-formed, the riders
\* register, accept, start and complete. (No step of the lifecycle reads
\* is_available; the switch is part of SpecAvailable.)
Next ==
    \/ CreateRideInsert(Customers, LifecycleVehicles, RandomSamples)
    \/ CreateRideNotify
    \/ \E i \in Drivers : AcceptRideStart(i)
    \/ \E i \in Drivers : AcceptRideRead(i)
    \/ \E i \in Drivers : AcceptRideUpdate(i)
    \/ \E i \in Drivers : AcceptRideNotify(i)
    \/ \E u \in Drivers : SaveProfile(u, LifecycleVehicles)
    \/ \E u \in Drivers : FetchMyRides(u)
    \/ \E u \in Drivers : StartRide(u)
    \/ \E u \in Drivers : CompleteRide(u, TypedDistances, TypedFares)

Spec == Init /\ [][Next]_vars

\* The create-ride handler alone, over every request.
NextCreate ==
    \/ CreateRideInsert(Credentials, VehicleInputs, RandomSamples)
    \/ CreateRideNotify

SpecCreate == Init /\ [][NextCreate]_vars

\* The fare estimate of the create-ride handler, over every vehicle type and
\* every value of Math.random().
NextFare ==
    \/ CreateRideInsert(Customers, VehicleTypes, RandomRange)
    \/ CreateRideNotify

SpecFare == Init /\ [][NextFare]_vars

\* The two handlers over the requests that fail before they touch a ride (no
\* header, a token of nobody, no profile, no driver profile) next to those of
\* one customer and one rider.
CreateCallers == {NoHeader, BadToken, "c1"}
AcceptCallers == {NoHeader, BadToken, "u0", "c1", "d1"}

NextHandlers ==
    \/ CreateRideInsert(CreateCallers, LifecycleVehicles, RandomSamples)
    \/ CreateRideNotify
    \/ \E i \in AcceptCallers : AcceptRideStart(i)
    \/ \E i \in AcceptCallers : AcceptRideRead(i)
    \/ \E i \in AcceptCallers : AcceptRideUpdate(i)
    \/ \E i \in AcceptCallers : AcceptRideNotify(i)
    \/ SaveProfile("d1", LifecycleVehicles)

SpecHandlers == Init /\ [][NextHandlers]_vars

\* outcomes of the dispatch of one mail, and of the two mails of an acceptance
MailOutcomes == BOOLEAN
MailsDelivered == 0..2

\* The two handlers as deployed with email dispatch.
NextEmail ==
    \/ CreateRideInsert(Customers, LifecycleVehicles, RandomSamples)
    \/ CreateRideNotifyEmail(MailOutcomes)
    \/ \E i \in Drivers : AcceptRideStart(i)
    \/ \E i \in Drivers : AcceptRideRead(i)
    \/ \E i \in Drivers : AcceptRideUpdate(i)
    \/ \E i \in Drivers : AcceptRideNotifyEmail(i, MailsDelivered)
    \/ \E u \in Drivers : SaveProfile(u, LifecycleVehicles)

SpecEmail == Init /\ [][NextEmail]_vars

\* accept-ride with customer lookups that may fail, for the requests of the
\* two riders.
NextUnreliable ==
    \/ CreateRideInsert(Customers, LifecycleVehicles, RandomSamples)
    \/ CreateRideNotify
    \/ \E i \in Drivers : AcceptRideStart(i)
    \/ \E i \in Drivers : AcceptRideRead(i)
    \/ \E i \in Drivers : AcceptRideUpdate(i)
    \/ \E i \in Drivers : AcceptRideNotifyUnreliable(i, LookupOutcomes)
    \/ \E u \in Drivers : SaveProfile(u, LifecycleVehicles)

SpecUnreliable == Init /\ [][NextUnreliable]_vars

\* The completion form over the texts its inputs may hold, in the lifecycle of
\* the rides of one rider.
NextComplete ==
    \/ CreateRideInsert(Customers, LifecycleVehicles, RandomSamples)
    \/ CreateRideNotify
    \/ AcceptRideStart("d1")
    \/ AcceptRideRead("d1")
    \/ AcceptRideUpdate("d1")
    \/ AcceptRideNotify("d1")
    \/ SaveProfile("d1", LifecycleVehicles)
    \/ FetchMyRides("d1")
    \/ StartRide("d1")
    \/ CompleteRideObserved("d1", DistanceInputs, FareInputs)

SpecComplete == Init /\ [][NextComplete]_vars

\* The list of available rides: requests for every vehicle type, of a
\* customer and of a rider, the riders registering every vehicle type,
\* switching their availability and loading the list, one of them accepting.
Requesters == {"c1", "d1"}

NextAvailable ==
    \/ CreateRideInsert(Requesters, VehicleTypes, RandomSamples)
    \/ CreateRideNotify
    \/ AcceptRideStart("d2")
    \/ AcceptRideRead("d2")
    \/ AcceptRideUpdate("d2")
    \/ AcceptRideNotify("d2")
    \/ \E u \in Drivers : SaveProfile(u, VehicleTypes)
    \/ \E u \in Drivers : ToggleAvailability(u)
    \/ \E u \in Drivers : FetchAvailableRides(u)

SpecAvailable == Init /\ [][NextAvailable]_vars


\* ================================================================ claims
RideIds == 1..Len(rides)

\* an invocation that got past the status = pending check
PassedCheck(i) == acc[i].ride # <<>> /\ acc[i].pc \in {"update", "notify", "done"}

\* an invocation whose update of the ride has been committed
Committed(i) == acc[i].ride # <<>> /\ acc[i].pc \in {"notify", "done"}

\* the step is invocation i's update of the ride
UpdateStep(i) == acc[i].pc = "update" /\ acc'[i].pc = "notify"

\* C1: of two AcceptRide invocations on the same ride, at most one returns
\* success.
C1_AtMostOneAcceptSucceeds ==
    \A i, j \in Credentials :
        (i # j /\ acc[i].response = Success /\ acc[j].response = Success)
            => acc[i].ride_id # acc[j].ride_id

\* C2: two invocations that both read the ride as pending before either
\* updates it both go on to their update and to the success response, neither
\* is given an error; each update sets driver_id to its caller whatever the
\* ride has become, and driver_id changes by such an update alone, so the
\* update that lands last decides it.
C2_RaceBothSucceedLastWriteWins ==
    [][\A i \in {c \in Credentials : PassedCheck(c)} :
       \A j \in {c \in Credentials \ {i} : PassedCheck(c)} :
         acc[i].ride_id = acc[j].ride_id
         => LET id == acc[i].ride_id
            IN  /\ acc[i].pc = "update" => acc'[i].pc \in {"update", "notify"}
                /\ acc[i].pc = "notify" =>
                       \/ acc'[i] = acc[i]
                       \/ acc'[i].pc = "done" /\ acc'[i].response = Success
                /\ UpdateStep(i) =>
                       /\ rides'[id].driver_id = acc[i].user
                       /\ rides'[id].status = "accepted"
                       /\ acc'[j] = acc[j]
                /\ rides'[id].driver_id # rides[id].driver_id =>
                       \E k \in {i, j} : UpdateStep(k) /\ rides'[id].driver_id = acc[k].user
      ]_vars

\* both riders were answered success for the same ride, which is d2's
C2_Witness ==
    /\ acc["d1"].pc = "done" /\ acc["d1"].response = Success
    /\ acc["d2"].pc = "done" /\ acc["d2"].response = Success
    /\ acc["d1"].ride_id = acc["d2"].ride_id
    /\ rides[acc["d1"].ride_id].driver_id = "d2"

\* C3: an invocation that reads the ride after another invocation's update of
\* it was committed gets the ride-unavailable error and writes nothing.
C3_LateAcceptFails ==
    [][\A i, j \in Credentials :
         (/\ i # j
          /\ acc[i].pc = "read" /\ acc'[i].pc # "read"
          /\ Committed(j) /\ acc[j].ride_id = acc[i].ride_id)
         => /\ acc'[i].pc = "done"
            /\ acc'[i].response = ErrRideUnavailable
            /\ rides' = rides
      ]_vars

\* one caller holds the ride, another was answered ride-unavailable for it
C3_Witness ==
    \E i, j \in Credentials :
        /\ i # j
        /\ acc[i].pc = "done" /\ acc[i].response = ErrRideUnavailable
        /\ acc[j].pc = "done" /\ acc[j].response = Success
        /\ acc[i].ride_id = acc[j].ride_id
        /\ rides[acc[j].ride_id].driver_id = acc[j].user

\* C4: a ride whose status is pending has no driver.
C4_PendingHasNoDriver ==
    \A r \in RideIds : rides[r].status = "pending" => rides[r].driver_id = NULL

\* a ride is pending, without driver, while an invocation that has read it
\* is about to update it
C4_Witness ==
    \E r \in RideIds, i \in Credentials :
        /\ rides[r].status = "pending" /\ rides[r].driver_id = NULL
        /\ acc[i].pc = "update" /\ acc[i].ride_id = r

\* C5: no step sets a driver_id that was set back to null.
C5_DriverNeverCleared ==
    [][\A r \in RideIds : rides[r].driver_id # NULL => rides'[r].driver_id # NULL]_vars

\* a ride with a driver has been started and completed, with distance and
\* fare stored
C5_Witness ==
    \E r \in RideIds :
        /\ rides[r].status = "completed"
        /\ rides[r].driver_id # NULL
        /\ rides[r].distance_km # NullNum
        /\ rides[r].final_fare # NullNum

\* the order of the lifecycle
StatusRank(status) ==
    CASE status = "pending" -> 0
      [] status = "accepted" -> 1
      [] status = "in_progress" -> 2
      [] status = "completed" -> 3
      [] status = "cancelled" -> 4

\* C6: no step moves a ride's status to an earlier state of
\* pending -> accepted -> in_progress -> completed.
C6_StatusMonotonic ==
    [][\A r \in RideIds : StatusRank(rides'[r].status) >= StatusRank(rides[r].status)]_vars

\* C7: final_fare or distance_km is set only on a completed ride.
C7_FareOnlyWhenCompleted ==
    \A r \in RideIds :
        (rides[r].final_fare # NullNum \/ rides[r].distance_km # NullNum)
            => rides[r].status = "completed"

\* C8: the row a create-ride invocation inserts is pending, has no driver, and
\* has the authenticated caller as customer.
C8_CreatedRidePending ==
    [][Len(rides') # Len(rides) =>
         /\ Len(rides') = Len(rides) + 1
         /\ cr'.pc = "notify"
         /\ cr'.user \in Users
         /\ rides'[Len(rides')].status = "pending"
         /\ rides'[Len(rides')].driver_id = NULL
         /\ rides'[Len(rides')].customer_id = cr'.user
      ]_vars

\* the row of a caller's request has just been inserted
C8_Witness ==
    /\ cr.pc = "notify"
    /\ cr.user = "d1"
    /\ Len(rides) = 1
    /\ rides[1].customer_id = "d1"

\* base(type) as the claim gives it
ClaimedBase(vehicle_type) ==
    CASE vehicle_type = "bike" -> 30
      [] vehicle_type = "auto" -> 50
      [] vehicle_type = "car" -> 80

\* C9 as stated: base(type) <= estimated fare < base(type) + 100.
C9_FareBelowBasePlus100 ==
    \A r \in RideIds :
        /\ rides[r].estimated_fare >= ClaimedBase(rides[r].vehicle_type)
        /\ rides[r].estimated_fare < ClaimedBase(rides[r].vehicle_type) + 100

\* C9 as amended: base(type) <= estimated fare <= base(type) + 100.
C9_FareWithinBasePlus100 ==
    \A r \in RideIds :
        /\ rides[r].estimated_fare >= ClaimedBase(rides[r].vehicle_type)
        /\ rides[r].estimated_fare <= ClaimedBase(rides[r].vehicle_type) + 100

\* a stored estimate equal to base + 100
C9_Witness ==
    \E r \in RideIds :
        /\ rides[r].vehicle_type = "auto"
        /\ rides[r].estimated_fare = ClaimedBase("auto") + 100

\* C10: a request whose vehicle_type is none of auto, car, bike is answered
\* with an error, and writes no ride and no notification; no ride of such a
\* type is ever persisted.
C10_InvalidVehicleRejected ==
    [][/\ (cr' # cr /\ cr.pc \in {"idle", "done"} /\ cr'.vehicle_type \notin VehicleTypes)
           => /\ cr'.pc = "done"
              /\ cr'.response \notin {NULL, Success}
              /\ rides' = rides
              /\ ride_notifications' = ride_notifications
       /\ \A r \in 1..Len(rides') : rides'[r].vehicle_type \in VehicleTypes
      ]_vars

\* a request for an "suv" was answered with the store's enum error
C10_Witness ==
    /\ cr.pc = "done"
    /\ cr.user = "c1"
    /\ cr.vehicle_type = "suv"
    /\ cr.response = ErrEnum
    /\ rides = <<>>
    /\ ride_notifications = EmptyBag

\* C11: a request without authorization header, or whose token resolves to
\* no user, is answered with an error by create-ride and by accept-ride, and
\* writes neither rides nor ride_notifications.
C11_UnauthenticatedRejected ==
    [][/\ (cr' # cr /\ cr'.pc # "idle" /\ cr'.user = NULL)
           => /\ cr'.pc = "done"
              /\ cr'.response \in {ErrNoHeader, ErrUnauthorized}
              /\ rides' = rides
              /\ ride_notifications' = ride_notifications
       /\ \A i \in {NoHeader, BadToken} :
             acc'[i] # acc[i]
             => /\ acc'[i].pc = "done"
                /\ acc'[i].response = (IF i = NoHeader THEN ErrNoHeader
                                                      ELSE ErrUnauthorized)
                /\ rides' = rides
                /\ ride_notifications' = ride_notifications
      ]_vars

\* with a pending ride in the store, both kinds of request were refused by
\* accept-ride and one by create-ride
C11_Witness ==
    /\ Len(rides) = 1 /\ rides[1].status = "pending"
    /\ cr.pc = "done" /\ cr.user = NULL /\ cr.response = ErrUnauthorized
    /\ acc[NoHeader].pc = "done" /\ acc[NoHeader].response = ErrNoHeader
    /\ acc[BadToken].pc = "done" /\ acc[BadToken].response = ErrUnauthorized

\* C12: a create-ride request of an authenticated caller with no row in
\* profiles is answered 'Customer profile not found' and inserts neither a
\* ride nor a notification.
C12_CreateWithoutProfileFails ==
    [][(/\ cr' # cr
        /\ cr.pc \in {"idle", "done"}
        /\ cr'.user \in Users
        /\ cr'.user \notin DOMAIN profiles)
       => /\ cr'.pc = "done"
          /\ cr'.response = ErrCustomerProfile
          /\ rides' = rides
          /\ ride_notifications' = ride_notifications
      ]_vars

\* u0, who has no profile, asked for a car and was refused
C12_Witness ==
    /\ cr.pc = "done"
    /\ cr.user = "u0"
    /\ cr.vehicle_type = "car"
    /\ cr.response = ErrCustomerProfile
    /\ \A r \in RideIds : rides[r].customer_id # "u0"
    /\ \A n \in BagToSet(ride_notifications) : n.user_id # "u0"

\* C13: an accept-ride invocation whose read finds no ride with id = ride_id
\* and status = pending (no such id, or a ride in any other status) is answered
\* 'Ride not found or already accepted' and writes nothing.
C13_NoPendingRideFails ==
    [][\A i \in Credentials :
         (/\ acc[i].pc = "read" /\ acc'[i].pc # "read"
          /\ ~ \E r \in RideIds : /\ rides[r].id = acc[i].ride_id
                                  /\ rides[r].status = "pending")
         => /\ acc'[i].pc = "done"
            /\ acc'[i].response = ErrRideUnavailable
            /\ rides' = rides
            /\ ride_notifications' = ride_notifications
      ]_vars

\* d1 was answered ride-unavailable for the ride d2 holds and has completed
C13_Witness ==
    /\ acc["d1"].pc = "done"
    /\ acc["d1"].response = ErrRideUnavailable
    /\ acc["d1"].ride = <<>>
    /\ RideExists(acc["d1"].ride_id)
    /\ rides[acc["d1"].ride_id].status = "completed"
    /\ rides[acc["d1"].ride_id].driver_id = "d2"

\* a rider was answered ride-unavailable for an id the table does not hold
C13_WitnessNoSuchRide ==
    /\ acc["d1"].pc = "done"
    /\ acc["d1"].response = ErrRideUnavailable
    /\ ~RideExists(acc["d1"].ride_id)

\* C14: an accept-ride request of an authenticated caller without row in
\* profiles is answered 'Driver profile not found', one of a caller with a
\* profile but without row in driver_profiles 'Driver vehicle profile not
\* found'; neither changes a ride or creates a notification.
C14_AcceptWithoutProfilesFails ==
    [][\A i \in Users :
         (/\ acc'[i] # acc[i]
          /\ acc[i].pc \in {"idle", "done"}
          /\ (i \notin DOMAIN profiles \/ i \notin DOMAIN driver_profiles))
         => /\ acc'[i].pc = "done"
            /\ acc'[i].response = (IF i \notin DOMAIN profiles THEN ErrDriverProfile
                                                               ELSE ErrDriverVehicle)
            /\ rides' = rides
            /\ ride_notifications' = ride_notifications
      ]_vars

\* u0 (no profile) and c1 (no driver profile) were refused a ride that is
\* still pending, without driver, and has its one notification
C14_Witness ==
    /\ acc["u0"].pc = "done" /\ acc["u0"].response = ErrDriverProfile
    /\ acc["c1"].pc = "done" /\ acc["c1"].response = ErrDriverVehicle
    /\ acc["u0"].ride_id = 1 /\ acc["c1"].ride_id = 1
    /\ Len(rides) >= 1
    /\ rides[1].status = "pending" /\ rides[1].driver_id = NULL
    /\ BagCardinality(ride_notifications) = 1

\* C15: an accept-ride invocation answers success only as the step after its
\* update of the ride, which set driver_id to the caller and status to
\* accepted; the answering step adds exactly two notifications for the ride,
\* one addressed to the ride's customer and one to the caller, and no other
\* step of the invocation adds any.
C15_SuccessMeansAcceptedAndNotified ==
    [][\A i \in Credentials :
         LET id == acc[i].ride_id
         IN  /\ (acc'[i] # acc[i] /\ acc'[i].response = Success)
                 => /\ acc[i].pc = "notify"
                    /\ acc'[i].user = acc[i].user /\ acc'[i].ride_id = id
                    /\ rides' = rides
                    /\ ride_notifications' = ride_notifications
                         (+) SetToBag({Notification(id, rides[id].customer_id,
                                                    "accepted-customer")})
                         (+) SetToBag({Notification(id, acc[i].user,
                                                    "accepted-driver")})
             /\ (acc'[i] # acc[i] /\ acc'[i].pc = "notify")
                 => /\ acc[i].pc = "update"
                    /\ rides'[id].driver_id = acc[i].user
                    /\ rides'[id].status = "accepted"
             /\ (acc'[i] # acc[i] /\ acc'[i].response # Success)
                 => ride_notifications' = ride_notifications
      ]_vars

\* d1 alone accepted the ride: it is d1's, accepted, and the table holds the
\* request's notification and the two of the acceptance
C15_Witness ==
    /\ acc["d1"].pc = "done" /\ acc["d1"].response = Success
    /\ acc["d2"].pc = "idle"
    /\ rides[acc["d1"].ride_id].driver_id = "d1"
    /\ rides[acc["d1"].ride_id].status = "accepted"
    /\ ride_notifications =
           SetToBag({Notification(acc["d1"].ride_id, "c1", "submitted"),
                     Notification(acc["d1"].ride_id, "c1", "accepted-customer"),
                     Notification(acc["d1"].ride_id, "d1", "accepted-driver")})

\* C16: the ride a create-ride invocation holds to return is the row its
\* insert wrote; it answers success with that ride, in the step that adds a
\* notification for that ride addressed to the caller, who is its customer.
C16_CreateReturnsPersistedRide ==
    [][/\ (cr' # cr /\ cr'.pc = "notify")
           => /\ cr'.ride = <<rides'[Len(rides')]>>
              /\ Len(rides') = Len(rides) + 1
              /\ cr'.ride[1].id = Len(rides')
              /\ cr'.ride[1].customer_id = cr'.user
       /\ (cr' # cr /\ cr'.response = Success)
           => /\ cr.pc = "notify"
              /\ cr'.ride = cr.ride /\ cr'.user = cr.user
              /\ RideExists(cr.ride[1].id)
              /\ rides'[cr.ride[1].id] = cr.ride[1]
              /\ ride_notifications' = ride_notifications
                   (+) SetToBag({[ride_id |-> cr.ride[1].id,
                                  user_id |-> cr.user,
                                  message |-> "submitted"]})
      ]_vars

\* c1 was answered success with the ride the table holds, and the table of
\* notifications holds the one of that ride for c1
C16_Witness ==
    /\ cr.pc = "done" /\ cr.response = Success /\ cr.user = "c1"
    /\ cr.ride = <<rides[1]>>
    /\ ride_notifications =
           SetToBag({[ride_id |-> 1, user_id |-> "c1", message |-> "submitted"]})

\* C17: the last step of create-ride and of accept-ride, which dispatches the
\* mails, answers success and adds the notifications whether the mail service
\* accepted the mails or threw: response and rows are those of the state
\* before, whatever becomes of emails.
C17_EmailFailureSwallowed ==
    [][/\ (cr' # cr /\ cr.pc = "notify")
           => /\ cr' = [cr EXCEPT !.pc = "done", !.response = Success]
              /\ rides' = rides
              /\ ride_notifications' = ride_notifications
                   (+) SetToBag({Notification(cr.ride[1].id, cr.user, "submitted")})
       /\ \A i \in Credentials :
             (acc'[i] # acc[i] /\ acc[i].pc = "notify")
             => /\ acc'[i] = [acc[i] EXCEPT !.pc = "done", !.response = Success]
                /\ rides' = rides
                /\ ride_notifications' = ride_notifications
                     (+) AcceptedNotifications(acc[i].ride_id, acc[i].ride[1].customer_id,
                                               acc[i].user)
      ]_vars

\* no mail was accepted, and the request and the acceptance were answered
\* success with their three notifications in the table
C17_Witness ==
    /\ emails = {}
    /\ cr.pc = "done" /\ cr.response = Success
    /\ acc["d1"].pc = "done" /\ acc["d1"].response = Success
    /\ acc["d2"].pc = "idle"
    /\ rides[1].driver_id = "d1" /\ rides[1].status = "accepted"
    /\ BagCardinality(ride_notifications) = 3

\* the same requests with every mail accepted end in the same rows
C17_WitnessDelivered ==
    /\ Cardinality(emails) = 3
    /\ cr.pc = "done" /\ cr.response = Success
    /\ acc["d1"].pc = "done" /\ acc["d1"].response = Success
    /\ acc["d2"].pc = "idle"
    /\ rides[1].driver_id = "d1" /\ rides[1].status = "accepted"
    /\ BagCardinality(ride_notifications) = 3

\* a text with a character that belongs to no decimal number
NonNumeric(text) == \E k \in 1..Len(text) : text[k] \notin (DOMAIN DigitValue \cup {"."})

\* C18: a 'Complete Ride' request whose distance or fare text is missing or
\* non-numeric is not sent to the store and leaves every ride as it is.
C18_IncompleteCompletionRejected ==
    [][\A u \in Users :
         (/\ completion'[u] # completion[u]
          /\ \/ completion'[u].distance = <<>> \/ NonNumeric(completion'[u].distance)
             \/ completion'[u].fare = <<>> \/ NonNumeric(completion'[u].fare))
         => /\ ~completion'[u].sent
            /\ rides' = rides
      ]_vars

\* the form was submitted with a distance that is no number; the ride is
\* still in progress, without distance and fare
C18_Witness ==
    /\ completion["d1"].distance = <<"a", "b", "c">>
    /\ completion["d1"].fare = <<"1", "5", "0">>
    /\ ~completion["d1"].sent
    /\ Len(rides) = 1
    /\ rides[1].status = "in_progress"
    /\ rides[1].distance_km = NullNum /\ rides[1].final_fare = NullNum

\* the form was submitted with the distance missing
C18_WitnessMissing ==
    /\ completion["d1"].distance = <<>>
    /\ completion["d1"].fare = <<"1", "5", "0">>
    /\ ~completion["d1"].sent
    /\ Len(rides) = 1
    /\ rides[1].status = "in_progress"

\* the customer and the assigned driver of a ride
Parties(row) == {row.customer_id, row.driver_id} \ {NULL}

\* the step is invocation i's read of the ride, which found it
ReadStep(i) == acc[i].pc = "read" /\ acc'[i].pc = "update"

\* the step belongs to the dashboards: no handler invocation moves
DashboardStep == acc' = acc /\ cr' = cr

\* what the dashboards do to rides: a fetched card is of a ride the user is a
\* party of, and a ride changes only if a party of it shows its card
DashboardWithinPolicy ==
    /\ \A u \in Users :
          myRides'[u] # myRides[u]
          => \A card \in myRides'[u] : u \in Parties(rides'[card.id])
    /\ \A r \in RideIds :
          (DashboardStep /\ rides'[r] # rides[r])
          => \E u \in Parties(rides[r]) : \E card \in myRides[u] : card.id = r

C20_AvailableRidesPendingAndMatching ==
    [][\A u \in Users :
         /\ u \notin DOMAIN driver_profiles' => availableRides'[u] = <<>>
         /\ availableRides'[u] # availableRides[u]
            => /\ u \in DOMAIN driver_profiles
               /\ \A card \in availableRides'[u][1] :
                     /\ card.id \in RideIds
                     /\ rides[card.id].status = "pending"
                     /\ rides[card.id].vehicle_type = driver_profiles[u].vehicle_type
      ]_vars

\* d1, who drives a bike, is shown the pending bike ride d1 asked for
C20_Witness ==
    /\ "d1" \in DOMAIN driver_profiles
    /\ driver_profiles["d1"].vehicle_type = "bike"
    /\ Len(rides) >= 1
    /\ rides[1].customer_id = "d1"
    /\ rides[1].status = "pending" /\ rides[1].vehicle_type = "bike"
    /\ availableRides["d1"] = << {[id |-> 1, status |-> "pending", vehicle_type |-> "bike"]} >>

\* ---------------------------------------------------------------- C21
\* C21: when the available-rides query of a driver returns, every ride that is
\* pending and whose vehicle type is the vehicle type of the driver's
\* DriverProfile is among the rows returned, the read policy on rides applied.
C21_PendingMatchingRideListed ==
    [][\A u \in Users :
         (availableRides[u] = <<>> /\ availableRides'[u] # <<>>)
         => \A r \in RideIds :
               (/\ rides[r].status = "pending"
                /\ rides[r].vehicle_type = driver_profiles[u].vehicle_type)
               => \E card \in availableRides'[u][1] : card.id = r
      ]_vars

\* ---------------------------------------------------------------- C22
\* C22: a ride whose status is completed has a distance_km and a final_fare:
\* the update that completes it writes both, whatever distance and fare the
\* completion form let through, 0 included.
C22_CompletedHasDistanceAndFare ==
    \A r \in RideIds :
        rides[r].status = "completed"
        => rides[r].distance_km # NullNum /\ rides[r].final_fare # NullNum

C24_AcceptIgnoresVehicleType ==
    [][\A i \in Drivers :
         LET id == acc[i].ride_id
             mismatch == /\ id \in RideIds
                         /\ acc[i].user \in DOMAIN driver_profiles
                         /\ rides[id].vehicle_type
                                # driver_profiles[acc[i].user].vehicle_type
         IN  /\ (/\ acc[i].pc = "read" /\ acc'[i] # acc[i]
                 /\ mismatch /\ rides[id].status = "pending")
                => /\ acc'[i].pc = "update"
                   /\ acc'[i].ride = <<rides[id]>>
             /\ (acc[i].pc = "update" /\ acc'[i] # acc[i] /\ mismatch)
                => /\ acc'[i].pc = "notify"
                   /\ rides'[id].driver_id = acc[i].user
                   /\ rides'[id].status = "accepted"
             /\ (acc[i].pc = "notify" /\ acc'[i] # acc[i] /\ mismatch)
                => /\ acc'[i].pc = "done"
                   /\ acc'[i].response = Success
      ]_vars

\* d2, who drives a bike, was answered success for the car ride of c1 and is
\* its driver
C24_Witness ==
    /\ "d2" \in DOMAIN driver_profiles
    /\ driver_profiles["d2"].vehicle_type = "bike"
    /\ acc["d2"].pc = "done" /\ acc["d2"].response = Success
    /\ acc["d2"].ride_id = 1
    /\ Len(rides) >= 1
    /\ rides[1].vehicle_type = "car"
    /\ rides[1].customer_id = "c1"
    /\ rides[1].driver_id = "d2" /\ rides[1].status = "accepted"

\* ---------------------------------------------------------------- C25
\* The status cancelled is in the enum, in the filter of the 'driver-rides'
\* query and among the colours of the cards, and no operation writes it:
\* create-ride inserts with the default pending, accept-ride writes accepted,
\* the driver dashboard writes in_progress and completed, the customer
\* dashboard only creates. So no ride is ever cancelled, which is the opposite
\* of the possibility C25 speaks of.
NoRideCancelled == \A r \in RideIds : rides[r].status # "cancelled"

\* ---------------------------------------------------------------- C26
\* C26: when an accept-ride invocation answers with an error, the step that
\* answers changes no ride and adds no notification, and the ride asked for
\* has the driver_id and the status the invocation found it with: nothing the
\* invocation did before the error is left behind.
C26_ErrorLeavesRideAsFound ==
    [][\A i \in Credentials :
         (/\ acc'[i] # acc[i]
          /\ acc'[i].pc = "done" /\ acc'[i].response # Success)
         => /\ rides' = rides
            /\ ride_notifications' = ride_notifications
            /\ acc'[i].ride # <<>>
               => /\ rides'[acc'[i].ride_id].driver_id = acc'[i].ride[1].driver_id
                  /\ rides'[acc'[i].ride_id].status = acc'[i].ride[1].status
      ]_vars

\* ---------------------------------------------------------------- C27
\* C27: for each ride there is at most one notification of its acceptance
\* addressed to a driver and at most one addressed to the customer, and the
\* driver addressed is the driver_id of the ride.
C27_OneAcceptanceNotifiedPerRide ==
    \A r \in RideIds :
        LET accepted(message) ==
                { n \in BagToSet(ride_notifications) :
                      n.ride_id = r /\ n.message = message }
        IN  /\ \A message \in {"accepted-driver", "accepted-customer"} :
                  /\ Cardinality(accepted(message)) <= 1
                  /\ \A n \in accepted(message) : CopiesIn(n, ride_notifications) = 1
            /\ \A n \in accepted("accepted-driver") : n.user_id = rides[r].driver_id

\* ---------------------------------------------------------------- C28
\* C28: no step changes the status, the driver_id, the distance_km or the
\* final_fare of a ride whose status is completed.
C28_CompletedRideFrozen ==
    [][\A r \in RideIds :
         rides[r].status = "completed"
         => /\ rides'[r].status = "completed"
            /\ rides'[r].driver_id = rides[r].driver_id
            /\ rides'[r].distance_km = rides[r].distance_km
            /\ rides'[r].final_fare = rides[r].final_fare
      ]_vars

\* ---------------------------------------------------------------- C29
\* C29: a driver whose DriverProfile has is_available = false does not cause a
\* ride to become accepted: no step assigns a ride to such a driver with status
\* accepted, and no accept-ride invocation of such a driver is answered
\* success, whenever the invocation was issued.
C29_UnavailableDriverAcceptsNothing ==
    [][\A u \in Users :
         (u \in DOMAIN driver_profiles /\ ~driver_profiles[u].is_available)
         => /\ \A r \in RideIds :
                  (rides'[r] # rides[r] /\ rides'[r].status = "accepted")
                  => rides'[r].driver_id # u
            /\ \A i \in Credentials :
                  (acc'[i] # acc[i] /\ acc'[i].response = Success)
                  => acc'[i].user # u
      ]_vars

\* ---------------------------------------------------------------- C30
\* C30: no step changes the customer_id, the vehicle_type or the
\* estimated_fare of a ride that exists; the fare the driver enters goes to
\* final_fare.
C30_RequestFieldsKept ==
    [][\A r \in RideIds :
         /\ rides'[r].customer_id = rides[r].customer_id
         /\ rides'[r].vehicle_type = rides[r].vehicle_type
         /\ rides'[r].estimated_fare = rides[r].estimated_fare
      ]_vars

\* the car ride of c1 has been accepted, started and completed by d1 with a
\* fare that is not the estimate: the estimate is still that of a car ride
C30_Witness ==
    /\ Len(rides) >= 1
    /\ rides[1].status = "completed" /\ rides[1].driver_id = "d1"
    /\ rides[1].customer_id = "c1" /\ rides[1].vehicle_type = "car"
    /\ rides[1].estimated_fare \in 80..180
    /\ rides[1].final_fare # NullNum
    /\ rides[1].final_fare # rides[1].estimated_fare

====
